---- MODULE Spec2Model ----
(***************************************************************************)
(* StereoscopicRenderingApp (samples/StereoscopicRendering): the sample's  *)
(* event handlers as a state machine.  Floats are fixed-point integers,    *)
(* Scale units to 1.0.  The framework classes the sample calls             *)
(* (CameraStereo, CameraStereoAutoFocuser, MayaCamUI, gl::) are modelled   *)
(* from the design document, the handlers from the source.                 *)
(***************************************************************************)
EXTENDS Integers, Sequences, FiniteSets, TLC

VARIABLES
    mIsStereo,      \* bool mIsStereo
    mFocusMethod,   \* AutoFocusMethod mFocusMethod
    mCamera,        \* CameraStereo mCamera
    mMayaCam,       \* the camera held by MayaCamUI mMayaCam
    afDepth,        \* mAF's auto-focus depth
    afSpeed,        \* mAF's auto-focus speed
    window,         \* <<width, height>> of the window
    gl,             \* the GL state draw() touches
    passes,         \* the render passes of the last draw(), in order
    lastEvent,      \* the handler that ran last (a key's name for keyDown)
    lastDt,         \* the frame time of the last update()
    switchPhase     \* "pending": update(), then a key 1-4 that changed the mode;
                    \* "applied": the update() right after that; else "none"

vars == <<mIsStereo, mFocusMethod, mCamera, mMayaCam, afDepth, afSpeed,
          window, gl, passes, lastEvent, lastDt, switchPhase>>

---------------------------------------------------------------------------
(* Fixed-point arithmetic *)

Scale == 100

Mul(a, b) == (a * b) \div Scale

Min(a, b) == IF a <= b THEN a ELSE b

Max(a, b) == IF a >= b THEN a ELSE b

Abs(a) == IF a >= 0 THEN a ELSE 0 - a

RECURSIVE SqrtBetween(_, _, _)
SqrtBetween(n, lo, hi) ==
    IF lo >= hi THEN lo
    ELSE LET mid == (lo + hi + 1) \div 2
         IN  IF mid * mid <= n THEN SqrtBetween(n, mid, hi)
                               ELSE SqrtBetween(n, lo, mid - 1)

\* floor of the square root (46340 squared is the largest square of the 32-bit integers)
ISqrt(n) == SqrtBetween(n, 0, Min(n, 46340))

\* Vec3f::length() of a - b
Distance(a, b) ==
    ISqrt((a[1] - b[1]) * (a[1] - b[1]) + (a[2] - b[2]) * (a[2] - b[2])
          + (a[3] - b[3]) * (a[3] - b[3]))

---------------------------------------------------------------------------
(* Constants of the sample *)

MaxFocalLength == 500      \* 5.0f
HalfDistance == 50         \* 0.5f
FixedEyeSeparation == 5    \* 0.05f
DepthStep == 5             \* 0.05f
DepthReset == 100          \* 1.0f
SpeedStep == 1             \* 0.01f
SetupFov == 60
InitialWidth == 960
InitialHeight == 540

SetupEyePoint == <<20, 130, -1150>>
SetupCenterOfInterest == <<50, 150, -10>>

FocusMethods == <<"SET_FOCAL_LENGTH", "SET_FOCUS", "AUTO_FOCUS_SIMPLE", "AUTO_FOCUS_DEPTH">>

\* the enumerator's value, as the comparison mFocusMethod >= AUTO_FOCUS_SIMPLE reads it
MethodIndex(m) == CHOOSE i \in 1..4 : FocusMethods[i] = m

MethodSet == {FocusMethods[i] : i \in 1..4}

ModeKeys == {"KEY_1", "KEY_2", "KEY_3", "KEY_4"}

ConfigKeys == {"KEY_UP", "KEY_DOWN", "KEY_SPACE", "KEY_LEFT", "KEY_RIGHT"}

FrameworkKeys == {"KEY_ESCAPE", "KEY_f", "KEY_v"}

KeyCodes == ModeKeys \cup ConfigKeys \cup FrameworkKeys \cup {"KEY_s"}

---------------------------------------------------------------------------
(* Bounds of the model *)

\* auto-focus speeds explored lie in 0 .. MaxSpeed
MaxSpeed == 1
\* auto-focus depths explored lie within MaxDepthSteps key presses of 1.0
MaxDepthSteps == 1

\* elapsed time between two update() calls; long frames keep the focal lengths
\* the auto-focuser passes through few
DeltaTimes == {200 * Scale}

\* world-space distance of the nearest surface in the depth buffer; NoSample: none
NoSample == -1
DepthSamples == {NoSample, 3 * Scale}

\* eye point and center of interest a mouse drag can leave in the orbit camera
DragPoses ==
    { << <<0, 0, -600>>, <<0, 0, 0>> >>,
      << <<0, 0, 0>>, <<0, 0, 0>> >> }

\* window sizes of a resize event
WindowSizes == { <<InitialWidth, InitialHeight>>, <<801, 600>> }

---------------------------------------------------------------------------
(* CameraStereo *)

DefaultFocalLength == 500
DefaultEyeSeparation == 5
EyeSeparationRatio == 30

DefaultCamera ==
    [eye |-> <<0, 0, -1000>>, coi |-> <<0, 0, 0>>, fov |-> 60,
     aspect |-> (InitialWidth * Scale) \div InitialHeight,
     focal |-> DefaultFocalLength, sep |-> DefaultEyeSeparation, stereo |-> "mono"]

SetEyePoint(cam, p) == [cam EXCEPT !.eye = p]

SetCenterOfInterestPoint(cam, p) == [cam EXCEPT !.coi = p]

SetFov(cam, f) == [cam EXCEPT !.fov = f]

SetAspectRatio(cam, a) == [cam EXCEPT !.aspect = a]

SetFocalLength(cam, f) == [cam EXCEPT !.focal = f]

SetEyeSeparation(cam, e) == [cam EXCEPT !.sep = e]

SetFocus(cam, f) == [cam EXCEPT !.focal = f, !.sep = f \div EyeSeparationRatio]

EnableStereo(cam, which) == [cam EXCEPT !.stereo = which]

\* MayaCamUI::setCurrentCam: the orbit controller takes a copy of the mono camera
SetCurrentCam(cam) == [eye |-> cam.eye, coi |-> cam.coi, fov |-> cam.fov, aspect |-> cam.aspect]

---------------------------------------------------------------------------
(* CameraStereoAutoFocuser *)

MinFocalLength == 10

Clamp(x, lo, hi) == Max(lo, Min(hi, x))

\* move cur toward target by at most maxStep
MoveToward(cur, target, maxStep) ==
    IF target >= cur THEN Min(target, cur + maxStep) ELSE Max(target, cur - maxStep)

\* the focal length autoFocus() arrives at
AutoFocusLength(cam, useDepthBuffer, depth, speed, sample, dt) ==
    IF useDepthBuffer /\ sample = NoSample THEN cam.focal
    ELSE LET base == IF useDepthBuffer THEN sample
                     ELSE Min(MaxFocalLength, Mul(Distance(cam.coi, cam.eye), HalfDistance))
             rawTarget == Clamp(Mul(depth, base), MinFocalLength, MaxFocalLength)
         IN  MoveToward(cam.focal, rawTarget, Mul(speed, dt))

AutoFocus(cam, useDepthBuffer, depth, speed, sample, dt) ==
    SetFocus(cam, AutoFocusLength(cam, useDepthBuffer, depth, speed, sample, dt))

---------------------------------------------------------------------------
(* update() *)

\* a variant of FocusTarget that forgets the cap at 5.0
FocusTargetUncapped(cam) == Mul(Distance(cam.coi, cam.eye), HalfDistance)

\* f = math<float>::min( 5.0f, d * 0.5f )
FocusTarget(cam) == Min(MaxFocalLength, Mul(Distance(cam.coi, cam.eye), HalfDistance))

\* a variant of UpdateCamera whose SET_FOCUS case approaches the target at the
\* auto-focus rate instead of assigning it
UpdateCameraRateLimited(method, cam, depth, speed, sample, dt) ==
    CASE method = "SET_FOCAL_LENGTH" ->
            SetEyeSeparation(SetFocalLength(cam, FocusTarget(cam)), FixedEyeSeparation)
      [] method = "SET_FOCUS" ->
            SetFocus(cam, MoveToward(cam.focal, FocusTarget(cam), Mul(speed, dt)))
      [] method = "AUTO_FOCUS_SIMPLE" -> AutoFocus(cam, FALSE, depth, speed, sample, dt)
      [] method = "AUTO_FOCUS_DEPTH" -> AutoFocus(cam, TRUE, depth, speed, sample, dt)

\* a variant of UpdateCamera whose SET_FOCAL_LENGTH case leaves out setEyeSeparation
UpdateCameraKeepSeparation(method, cam, depth, speed, sample, dt) ==
    CASE method = "SET_FOCAL_LENGTH" -> SetFocalLength(cam, FocusTarget(cam))
      [] method = "SET_FOCUS" -> SetFocus(cam, FocusTarget(cam))
      [] method = "AUTO_FOCUS_SIMPLE" -> AutoFocus(cam, FALSE, depth, speed, sample, dt)
      [] method = "AUTO_FOCUS_DEPTH" -> AutoFocus(cam, TRUE, depth, speed, sample, dt)

UpdateCamera(method, cam, depth, speed, sample, dt) ==
    CASE method = "SET_FOCAL_LENGTH" ->
            SetEyeSeparation(SetFocalLength(cam, FocusTarget(cam)), FixedEyeSeparation)
      [] method = "SET_FOCUS" -> SetFocus(cam, FocusTarget(cam))
      [] method = "AUTO_FOCUS_SIMPLE" -> AutoFocus(cam, FALSE, depth, speed, sample, dt)
      [] method = "AUTO_FOCUS_DEPTH" -> AutoFocus(cam, TRUE, depth, speed, sample, dt)

Started == lastEvent # "constructed"

Update ==
    /\ Started
    /\ \E sample \in DepthSamples, dt \in DeltaTimes :
          /\ mCamera' = UpdateCamera(mFocusMethod, mCamera, afDepth, afSpeed, sample, dt)
          /\ lastDt' = dt
    /\ lastEvent' = "update"
    /\ switchPhase' = IF switchPhase = "pending" THEN "applied" ELSE "none"
    /\ UNCHANGED <<mIsStereo, mFocusMethod, mMayaCam, afDepth, afSpeed, window, gl, passes>>

---------------------------------------------------------------------------
(* setup() *)

\* The shader, the meshes and the font setup() loads are read by render() and
\* renderUI() alone and decide nothing below.
SetupCamera(cam) ==
    SetFov(SetCenterOfInterestPoint(SetEyePoint(cam, SetupEyePoint), SetupCenterOfInterest),
           SetupFov)

Setup ==
    /\ lastEvent = "constructed"
    /\ mIsStereo' = TRUE
    /\ mFocusMethod' = "AUTO_FOCUS_DEPTH"
    /\ mCamera' = SetupCamera(mCamera)
    /\ mMayaCam' = SetCurrentCam(SetupCamera(mCamera))
    /\ lastEvent' = "setup"
    /\ UNCHANGED <<afDepth, afSpeed, window, gl, passes, lastDt, switchPhase>>

---------------------------------------------------------------------------
(* mouseDown(), mouseDrag() *)

MouseDown ==
    /\ Started
    /\ lastEvent' = "mouseDown"
    /\ switchPhase' = "none"
    /\ UNCHANGED <<mIsStereo, mFocusMethod, mCamera, mMayaCam, afDepth, afSpeed,
                   window, gl, passes, lastDt>>

\* MayaCamUI::mouseDrag: the drag leaves a new eye point and center of interest
MayaMouseDrag(maya, pose) == [maya EXCEPT !.eye = pose[1], !.coi = pose[2]]

\* a variant of DragCamera that copies the eye point alone
DragCameraEyeOnly(cam, maya) == SetEyePoint(cam, maya.eye)

\* the stereo camera follows the orbit controller
DragCamera(cam, maya) == SetCenterOfInterestPoint(SetEyePoint(cam, maya.eye), maya.coi)

MouseDrag ==
    /\ Started
    /\ \E pose \in DragPoses :
          /\ mMayaCam' = MayaMouseDrag(mMayaCam, pose)
          /\ mCamera' = DragCamera(mCamera, MayaMouseDrag(mMayaCam, pose))
    /\ lastEvent' = "mouseDrag"
    /\ switchPhase' = "none"
    /\ UNCHANGED <<mIsStereo, mFocusMethod, afDepth, afSpeed, window, gl, passes, lastDt>>

---------------------------------------------------------------------------
(* keyDown() *)

\* ESCAPE, f and v act on the framework's window (quit, full screen, vertical
\* sync) and on no member of the sample.
KeyStereo(code, stereo) == IF code = "KEY_s" THEN ~stereo ELSE stereo

\* a variant of KeyFocusMethod whose KEY_2 case repeats the KEY_1 assignment
KeyFocusMethodRepeated(code, method) ==
    CASE code = "KEY_1" -> "SET_FOCAL_LENGTH"
      [] code = "KEY_2" -> "SET_FOCAL_LENGTH"
      [] code = "KEY_3" -> "AUTO_FOCUS_SIMPLE"
      [] code = "KEY_4" -> "AUTO_FOCUS_DEPTH"
      [] OTHER -> method

KeyFocusMethod(code, method) ==
    CASE code = "KEY_1" -> "SET_FOCAL_LENGTH"
      [] code = "KEY_2" -> "SET_FOCUS"
      [] code = "KEY_3" -> "AUTO_FOCUS_SIMPLE"
      [] code = "KEY_4" -> "AUTO_FOCUS_DEPTH"
      [] OTHER -> method

\* a variant of KeyDepth without the test of mFocusMethod
KeyDepthAnyMode(code, method, depth) ==
    CASE code = "KEY_UP" -> depth + DepthStep
      [] code = "KEY_DOWN" -> depth - DepthStep
      [] code = "KEY_SPACE" -> DepthReset
      [] OTHER -> depth

KeyDepth(code, method, depth) ==
    CASE code = "KEY_UP" ->
            IF MethodIndex(method) >= MethodIndex("AUTO_FOCUS_SIMPLE")
            THEN depth + DepthStep ELSE depth
      [] code = "KEY_DOWN" ->
            IF MethodIndex(method) >= MethodIndex("AUTO_FOCUS_SIMPLE")
            THEN depth - DepthStep ELSE depth
      [] code = "KEY_SPACE" -> DepthReset
      [] OTHER -> depth

KeySpeed(code, speed) ==
    CASE code = "KEY_LEFT" -> speed - SpeedStep
      [] code = "KEY_RIGHT" -> speed + SpeedStep
      [] OTHER -> speed

\* the values explored stay within the bounds of the model
WithinBounds(depth, speed) ==
    /\ Abs(depth - DepthReset) <= MaxDepthSteps * DepthStep
    /\ speed >= 0
    /\ speed <= MaxSpeed

KeyDown(code) ==
    /\ Started
    /\ WithinBounds(KeyDepth(code, mFocusMethod, afDepth), KeySpeed(code, afSpeed))
    /\ mIsStereo' = KeyStereo(code, mIsStereo)
    /\ mFocusMethod' = KeyFocusMethod(code, mFocusMethod)
    /\ afDepth' = KeyDepth(code, mFocusMethod, afDepth)
    /\ afSpeed' = KeySpeed(code, afSpeed)
    /\ lastEvent' = code
    /\ switchPhase' = IF /\ code \in ModeKeys
                          /\ lastEvent = "update"
                          /\ KeyFocusMethod(code, mFocusMethod) # mFocusMethod
                       THEN "pending" ELSE "none"
    /\ UNCHANGED <<mCamera, mMayaCam, window, gl, passes, lastDt>>

---------------------------------------------------------------------------
(* resize() *)

\* a variant of ResizeCamera that also refocuses the camera
ResizeCameraRefocus(cam, aspect) == SetFocus(SetAspectRatio(cam, aspect), DefaultFocalLength)

ResizeCamera(cam, aspect) == SetAspectRatio(cam, aspect)

Resize ==
    /\ Started
    /\ \E size \in WindowSizes :
          /\ window' = size
          /\ mCamera' = ResizeCamera(mCamera, (size[1] * Scale) \div size[2])
          /\ mMayaCam' = SetCurrentCam(ResizeCamera(mCamera, (size[1] * Scale) \div size[2]))
    /\ lastEvent' = "resize"
    /\ switchPhase' = "none"
    /\ UNCHANGED <<mIsStereo, mFocusMethod, afDepth, afSpeed, gl, passes, lastDt>>

---------------------------------------------------------------------------
(* draw() *)

InitialGl ==
    [viewport |-> <<0, 0, InitialWidth, InitialHeight>>, attribStack |-> <<>>,
     matrixDepth |-> 0, depthRead |-> FALSE, depthWrite |-> FALSE]

PushAttrib(g) == [g EXCEPT !.attribStack = Append(@, g.viewport)]

PopAttrib(g) ==
    [g EXCEPT !.viewport = g.attribStack[Len(g.attribStack)],
              !.attribStack = SubSeq(@, 1, Len(@) - 1)]

SetViewport(g, area) == [g EXCEPT !.viewport = area]

PushMatrices(g) == [g EXCEPT !.matrixDepth = @ + 1]

PopMatrices(g) == [g EXCEPT !.matrixDepth = @ - 1]

EnableDepth(g, on) == [g EXCEPT !.depthRead = on, !.depthWrite = on]

\* render() and renderUI() draw into the current viewport with the current camera
Pass(kind, g, cam) == [kind |-> kind, eye |-> cam.stereo, viewport |-> g.viewport]

\* a variant of DrawScene whose right half starts at the width's half rounded up
DrawSceneRoundedUp(stereo, w, h, g, cam) ==
    LET g1 == PushMatrices(EnableDepth(g, TRUE))
    IN  IF stereo
        THEN LET g2 == SetViewport(PushAttrib(g1), <<0, 0, w \div 2, h>>)
                 c2 == EnableStereo(cam, "left")
                 g3 == SetViewport(g2, <<(w + 1) \div 2, 0, w, h>>)
                 c3 == EnableStereo(c2, "right")
                 g4 == PopAttrib(g3)
             IN  <<EnableDepth(PopMatrices(g4), FALSE), c3,
                   <<Pass("scene", g2, c2), Pass("scene", g3, c3)>> >>
        ELSE LET c2 == EnableStereo(cam, "mono")
             IN  <<EnableDepth(PopMatrices(g1), FALSE), c2, <<Pass("scene", g1, c2)>> >>

\* the 3D part of draw(): <<gl state, camera, passes>>
DrawScene(stereo, w, h, g, cam) ==
    LET g1 == PushMatrices(EnableDepth(g, TRUE))
    IN  IF stereo
        THEN LET g2 == SetViewport(PushAttrib(g1), <<0, 0, w \div 2, h>>)
                 c2 == EnableStereo(cam, "left")
                 g3 == SetViewport(g2, <<w \div 2, 0, w, h>>)
                 c3 == EnableStereo(c2, "right")
                 g4 == PopAttrib(g3)
             IN  <<EnableDepth(PopMatrices(g4), FALSE), c3,
                   <<Pass("scene", g2, c2), Pass("scene", g3, c3)>> >>
        ELSE LET c2 == EnableStereo(cam, "mono")
             IN  <<EnableDepth(PopMatrices(g1), FALSE), c2, <<Pass("scene", g1, c2)>> >>

\* the 2D part of draw(): <<gl state, passes>>
DrawUI(stereo, w, h, g, cam) ==
    IF stereo
    THEN LET g2 == SetViewport(PushAttrib(g), <<0, 0, w \div 2, h>>)
             g3 == SetViewport(g2, <<w \div 2, 0, w, h>>)
         IN  <<PopAttrib(g3), <<Pass("ui", g2, cam), Pass("ui", g3, cam)>> >>
    ELSE <<g, <<Pass("ui", g, cam)>> >>

Draw ==
    /\ Started
    /\ LET scene == DrawScene(mIsStereo, window[1], window[2], gl, mCamera)
           ui == DrawUI(mIsStereo, window[1], window[2], scene[1], scene[2])
       IN  /\ gl' = ui[1]
           /\ mCamera' = scene[2]
           /\ passes' = scene[3] \o ui[2]
    /\ lastEvent' = "draw"
    /\ switchPhase' = "none"
    /\ UNCHANGED <<mIsStereo, mFocusMethod, mMayaCam, afDepth, afSpeed, window, lastDt>>

---------------------------------------------------------------------------
(* The application *)

\* after construction, before setup(): mIsStereo and mFocusMethod are not
\* initialised by the constructor; the auto-focuser starts at depth 1.0 and at
\* some valid speed
Init ==
    /\ mIsStereo \in BOOLEAN
    /\ mFocusMethod \in MethodSet
    /\ mCamera = DefaultCamera
    /\ mMayaCam = SetCurrentCam(DefaultCamera)
    /\ afDepth = DepthReset
    /\ afSpeed \in 1..MaxSpeed
    /\ window = <<InitialWidth, InitialHeight>>
    /\ gl = InitialGl
    /\ passes = <<>>
    /\ lastEvent = "constructed"
    /\ lastDt = 0
    /\ switchPhase = "none"

Next ==
    \/ Setup
    \/ Update
    \/ Draw
    \/ MouseDown
    \/ MouseDrag
    \/ \E code \in KeyCodes : KeyDown(code)
    \/ Resize

Spec == Init /\ [][Next]_vars

---------------------------------------------------------------------------
(* Properties *)

DistanceModes == {"SET_FOCAL_LENGTH", "SET_FOCUS"}

AutoModes == {"AUTO_FOCUS_SIMPLE", "AUTO_FOCUS_DEPTH"}

\* the most the focal length may move in one update: adjustmentSpeed * deltaTime
RateLimit(speed, dt) == Mul(speed, dt)

FocalChange == Abs(mCamera'.focal - mCamera.focal)

MethodOfKey(code) ==
    CASE code = "KEY_1" -> "SET_FOCAL_LENGTH"
      [] code = "KEY_2" -> "SET_FOCUS"
      [] code = "KEY_3" -> "AUTO_FOCUS_SIMPLE"
      [] code = "KEY_4" -> "AUTO_FOCUS_DEPTH"

\* a key 1-4 selects its method and leaves the camera alone
ModeKeyStep ==
    lastEvent' \in ModeKeys =>
        /\ mFocusMethod' = MethodOfKey(lastEvent')
        /\ mCamera' = mCamera

\* the second of two update() calls with a mode change between them
SecondUpdate == switchPhase = "pending" /\ switchPhase' = "applied"

C3_DistanceTarget ==
    (lastEvent = "update" /\ mFocusMethod \in DistanceModes) =>
        /\ mCamera.focal =
              Min(MaxFocalLength, Mul(Distance(mCamera.coi, mCamera.eye), HalfDistance))
        /\ mCamera.focal <= MaxFocalLength

\* update() ran in SET_FOCUS mode at distance 6.0: the focal length is 3.0
C3_Witness ==
    /\ lastEvent = "update"
    /\ mFocusMethod = "SET_FOCUS"
    /\ Distance(mCamera.coi, mCamera.eye) = 6 * Scale
    /\ mCamera.focal = 3 * Scale

\* C4: after setup() and any handlers the camera's focal length is positive and
\* its eye separation is not negative.
C4_ValidStereoParameters ==
    Started => (mCamera.focal > 0 /\ mCamera.sep >= 0)

\* C5: resize() changes the aspect ratio of the camera and nothing else of it,
\* hands the camera to the orbit controller, and leaves the focus method, the
\* stereo flag and the auto-focus depth and speed alone.
C5_ResizeChangesAspectOnly ==
    [][lastEvent' = "resize" =>
          /\ mCamera' = [mCamera EXCEPT !.aspect = mCamera'.aspect]
          /\ mMayaCam' = SetCurrentCam(mCamera')
          /\ UNCHANGED <<mFocusMethod, mIsStereo, afDepth, afSpeed>>]_vars

\* resize() ran on a camera that had been refocused and a configuration that
\* had been changed
C5_Witness ==
    /\ lastEvent = "resize"
    /\ mCamera.aspect # DefaultCamera.aspect
    /\ mCamera.focal # DefaultFocalLength
    /\ mCamera.sep # DefaultEyeSeparation
    /\ afDepth # DepthReset

\* C6: after any key events the auto-focus depth is in (0, 1] and the speed is
\* positive.
C6_ConfigurationInRange ==
    /\ afDepth > 0
    /\ afDepth <= DepthReset
    /\ afSpeed > 0

\* C7, as stated: update() in SET_FOCAL_LENGTH mode leaves the eye separation as
\* it was; in SET_FOCUS mode the eye separation is a function of the new focal
\* length.
C7_SeparationUntouched ==
    [][lastEvent' = "update" =>
          /\ mFocusMethod = "SET_FOCAL_LENGTH" => mCamera'.sep = mCamera.sep
          /\ mFocusMethod = "SET_FOCUS" =>
                mCamera'.sep = mCamera'.focal \div EyeSeparationRatio]_vars

\* C7, amended: update() in SET_FOCAL_LENGTH mode sets the eye separation to the
\* fixed 0.05 whatever it was before (setFocalLength leaves it alone, the
\* setEyeSeparation call after it does not); in SET_FOCUS mode the eye
\* separation is a function of the new focal length.
C7_SeparationReset ==
    lastEvent = "update" =>
        /\ mFocusMethod = "SET_FOCAL_LENGTH" => mCamera.sep = FixedEyeSeparation
        /\ mFocusMethod = "SET_FOCUS" => mCamera.sep = mCamera.focal \div EyeSeparationRatio

\* update() in another mode, key 1, update(): the eye separation is 0.05 and
\* the focal length one that setFocus gives another separation
C7_Witness ==
    /\ switchPhase = "applied"
    /\ mFocusMethod = "SET_FOCAL_LENGTH"
    /\ mCamera.sep = FixedEyeSeparation
    /\ mCamera.focal \div EyeSeparationRatio # FixedEyeSeparation

\* C8: UP and DOWN change the auto-focus depth by +0.05 and -0.05 in the two
\* auto-focus modes and not at all in the other two; SPACE sets it to 1.0;
\* LEFT and RIGHT change the speed by -0.01 and +0.01 in every mode; none of
\* the five changes the focus method or the stereo flag.
C8_ConfigurationKeys ==
    [][/\ lastEvent' = "KEY_UP" =>
             afDepth' = IF mFocusMethod \in AutoModes THEN afDepth + DepthStep ELSE afDepth
       /\ lastEvent' = "KEY_DOWN" =>
             afDepth' = IF mFocusMethod \in AutoModes THEN afDepth - DepthStep ELSE afDepth
       /\ lastEvent' = "KEY_SPACE" => afDepth' = DepthReset
       /\ lastEvent' = "KEY_LEFT" => afSpeed' = afSpeed - SpeedStep
       /\ lastEvent' = "KEY_RIGHT" => afSpeed' = afSpeed + SpeedStep
       /\ lastEvent' \in {"KEY_UP", "KEY_DOWN", "KEY_SPACE"} => afSpeed' = afSpeed
       /\ lastEvent' \in {"KEY_LEFT", "KEY_RIGHT"} => afDepth' = afDepth
       /\ lastEvent' \in ConfigKeys => UNCHANGED <<mFocusMethod, mIsStereo>>]_vars

\* UP was pressed in SET_FOCUS mode on a depth lowered before: it is as it was
C8_Witness ==
    /\ lastEvent = "KEY_UP"
    /\ mFocusMethod = "SET_FOCUS"
    /\ afDepth = DepthReset - DepthStep

ScenePasses == SelectSeq(passes, LAMBDA p : p.kind = "scene")

\* C9: a stereo draw() renders the scene twice, the left eye into x in
\* [0, w/2) and then the right eye into x in [w/2, w) (integer division: the
\* halves share no column and leave none out); a mono draw() renders it once
\* with stereo disabled; either way the viewport and both stacks are as before.
C9_TwoPasses ==
    lastEvent = "draw" =>
        /\ IF mIsStereo
           THEN ScenePasses =
                   << [kind |-> "scene", eye |-> "left",
                       viewport |-> <<0, 0, window[1] \div 2, window[2]>>],
                      [kind |-> "scene", eye |-> "right",
                       viewport |-> <<window[1] \div 2, 0, window[1], window[2]>>] >>
           ELSE /\ Len(ScenePasses) = 1
                /\ ScenePasses[1].eye = "mono"
        /\ gl.viewport = InitialGl.viewport
        /\ gl.attribStack = <<>>
        /\ gl.matrixDepth = 0

\* a stereo draw() into a window of odd width
C9_Witness ==
    /\ lastEvent = "draw"
    /\ mIsStereo
    /\ window[1] % 2 = 1
    /\ Len(ScenePasses) = 2

\* C10: after setup() and after every handler the stereo camera and the orbit
\* controller's camera have the same eye point and center of interest.
C10_CamerasAgree ==
    Started => (mCamera.eye = mMayaCam.eye /\ mCamera.coi = mMayaCam.coi)

\* a drag moved both cameras away from the pose of setup()
C10_Witness ==
    /\ lastEvent = "mouseDrag"
    /\ mMayaCam.eye # SetupEyePoint
    /\ mMayaCam.coi # SetupCenterOfInterest
    /\ mCamera.eye = mMayaCam.eye

====
